---- MODULE Spec2Model ----
(***************************************************************************)
(* A model of the Sentinel-2 agriculture index pipeline:                   *)
(*   src/preprocess_file.py  ProcessMultiPoly (multi-polygon flattening)   *)
(*   src/senti_download.py   DownloadImages   (download + CSV ledger)      *)
(*   src/img_processing.py   ImageProcessing  (directories, product        *)
(*                           selection, NDVI / NDRE band arithmetic,       *)
(*                           clipping to a polygon)                        *)
(*                                                                         *)
(* The three classes share no state in the program other than the files    *)
(* they leave behind, so each group of operations has its own              *)
(* specification (SpecPoly, SpecDownload, SpecLedger, SpecPipe, SpecDirs,  *)
(* SpecFolders, SpecIndex, SpecMask) over its own variables; those of the  *)
(* other groups stay at their idle values.                                 *)
(*                                                                         *)
(* Geometry is modelled on a grid: a shape is a non-empty set of cells,    *)
(* its area is the number of cells, intersection is set intersection.      *)
(* A threshold is a rational [num, den]; "ratio >= threshold" is compared  *)
(* exactly by cross-multiplication.                                        *)
(***************************************************************************)
EXTENDS Integers, Sequences, FiniteSets, TLC

VARIABLES
    pp_gdf,      \* preprocess_multipoly: the input geodataframe (sequence of rows)
    pp_out,      \* preprocess_multipoly: [status, rows] of the call
    database,    \* os.listdir(database_path): the entries of the database directory
    ledger,      \* the CSV at csv_path: [state, rows, unnamed]
    dl_args,     \* download_folders: the arguments of the calls
    dl_calls,    \* download_folders: number of calls made
    dl_last,     \* download_folders: what the last call did
    ud_calls,    \* update_downloaded: number of calls made
    ud_last,     \* update_downloaded: what the last call did
    ud_passed,   \* update_downloaded: every row passed in so far
    pipe_args,   \* full_pipe: the arguments and the answer of the archive query
    pipe,        \* full_pipe: how far the call got
    ip_gdf,      \* ImageProcessing.gdf: rows [name, geometry]
    fs,          \* the directories that exist under the working directory
    ip_built,    \* whether ImageProcessing.__init__ has run
    gf_args,     \* get_folders: the arguments of the call
    gf_out,      \* get_folders: [status, folders, date] of the call
    files,       \* the IMG_DATA folder of one product: file -> content
    ix_calls,    \* generate_ndvi / generate_ndre: number of calls made
    ix_last,     \* generate_ndvi / generate_ndre: what the last call did
    mk_imgs,     \* mask_*: product -> the rasters its IMG_DATA/R10m folder holds
    mk_out,      \* mask_*: the raster files under the polygon directories
    mk_calls,    \* mask_*: number of calls made
    mk_last      \* mask_*: what the last call did

polyVars == <<pp_gdf, pp_out>>
fileVars == <<database, ledger>>
dlVars == <<dl_args, dl_calls, dl_last>>
udVars == <<ud_calls, ud_last, ud_passed>>
pipeVars == <<pipe_args, pipe>>
ipVars == <<ip_gdf, fs, ip_built>>
gfVars == <<gf_args, gf_out>>
ixVars == <<files, ix_calls, ix_last>>
mkVars == <<mk_imgs, mk_out, mk_calls, mk_last>>

vars == <<polyVars, fileVars, dlVars, udVars, pipeVars, ipVars, gfVars, ixVars, mkVars>>

----------------------------------------------------------------------------
(* Bounds of the model *)

MaxRows == 3        \* rows of the geodataframe given to preprocess_multipoly
MaxParts == 2       \* constituent polygons of one MultiPolygon
NumProducts == 2    \* products of the archive
MaxCalls == 2       \* calls of download_folders, of the generate_* operations
MaxUpdates == 3     \* calls of update_downloaded in a behaviour
MaxMasks == 2       \* calls of the mask_* operations in a behaviour
MaxPolys == 2       \* polygons of the geodataframe of an ImageProcessing object

----------------------------------------------------------------------------
(* Helpers on sequences *)

Range(s) == {s[i] : i \in 1..Len(s)}

SeqsUpTo(S, lo, hi) == UNION {[1..n -> S] : n \in lo..hi}

----------------------------------------------------------------------------
(* src/preprocess_file.py : ProcessMultiPoly                               *)
(*                                                                         *)
(* A geometry is [type, parts]: a Polygon has exactly one part (itself), a *)
(* MultiPolygon has its constituent polygons in order, any other geometry  *)
(* (here Point) has none.  Polygon identities are <<row, k>>.  A name is a *)
(* sequence of numbers: <<n>> is the row's name, <<n, k>> is the name      *)
(* F'{name}_{k}' the code builds for the k-th part (k from 0).             *)

PolyGeom(p) == [type |-> "Polygon", parts |-> <<p>>]

\* the value Python's None, and a frame holding rows
NoneFrame == [none |-> TRUE, rows |-> <<>>]
Frame(rows) == [none |-> FALSE, rows |-> rows]

check_type(poly, poly_type) == poly.type = poly_type

_row_by_type(gdf, poly_type) ==
    LET sel == SelectSeq(gdf, LAMBDA r : check_type(r.geometry, poly_type))
    IN  IF sel # <<>> THEN Frame(sel) ELSE NoneFrame

\* the rows one MultiPolygon row contributes in the len(multipoly) > 1 branch
ExpandRow(row) ==
    IF Len(row.geometry.parts) > 1
    THEN [k \in 1..Len(row.geometry.parts) |->
            [name |-> row.name \o <<k - 1>>,
             geometry |-> PolyGeom(row.geometry.parts[k])]]
    ELSE <<[name |-> row.name, geometry |-> PolyGeom(row.geometry.parts[1])]>>

RECURSIVE ExpandRows(_)
ExpandRows(rows) ==
    IF rows = <<>> THEN <<>>
    ELSE ExpandRow(Head(rows)) \o ExpandRows(Tail(rows))

_transform_multipoly(multipoly) ==
    IF Len(multipoly) > 1
    THEN ExpandRows(multipoly)
    ELSE \* multipoly["geometry"] = list(multipoly["geometry"].iloc[0])[0]
         [i \in 1..Len(multipoly) |->
            [name |-> multipoly[i].name,
             geometry |-> PolyGeom(multipoly[1].geometry.parts[1])]]

\* pd.concat([a, b]): None objects are dropped silently
PdConcat(a, b) ==
    (IF a.none THEN <<>> ELSE a.rows) \o (IF b.none THEN <<>> ELSE b.rows)

\* a faulty variant of preprocess_multipoly: "or" for "and" at line 101, so the
\* exception is raised as soon as no Polygon row exists
preprocess_multipoly_or(gdf) ==
    LET multipoly_df == _row_by_type(gdf, "MultiPolygon")
        poly_df == _row_by_type(gdf, "Polygon")
    IN  IF multipoly_df.none \/ poly_df.none
        THEN [status |-> "raised", rows |-> <<>>]
        ELSE [status |-> "returned",
              rows |-> PdConcat(Frame(_transform_multipoly(multipoly_df.rows)), poly_df)]

preprocess_multipoly(gdf) ==
    LET multipoly_df == _row_by_type(gdf, "MultiPolygon")
        poly_df == _row_by_type(gdf, "Polygon")
    IN  IF multipoly_df.none /\ poly_df.none
        THEN [status |-> "raised", rows |-> <<>>]
        ELSE IF ~ multipoly_df.none
        THEN [status |-> "returned",
              rows |-> PdConcat(Frame(_transform_multipoly(multipoly_df.rows)), poly_df)]
        ELSE [status |-> "returned", rows |-> poly_df.rows]

----------------------------------------------------------------------------
(* Geometry on the grid, thresholds                                         *)

\* the grid: two cells give the area ratios 0, 1/2 and 1
Cells == {1, 2}
Shapes == (SUBSET Cells) \ {{}}
Area(shape) == Cardinality(shape)
Intersection(a, b) == a \cap b

\* threshold=0.9 (download_folders, full_pipe) and 0.97 (get_folders) are the
\* defaults; 1/2 is a value a caller may pass
DefaultDownloadThreshold == [num |-> 9, den |-> 10]
DefaultFoldersThreshold == [num |-> 97, den |-> 100]
DownloadThresholds == {[num |-> 1, den |-> 2], DefaultDownloadThreshold}
FoldersThresholds == {[num |-> 1, den |-> 2], DefaultFoldersThreshold}

\* area >= threshold, where area = num_a / den_a
AtLeast(num_a, den_a, threshold) == num_a * threshold.den >= threshold.num * den_a

----------------------------------------------------------------------------
(* src/senti_download.py : DownloadImages                                  *)
(*                                                                         *)
(* A product row is [idx, filename, geometry]: idx is the index label of   *)
(* the products geodataframe (the product's uuid), filename is             *)
(* <title>.SAFE.  api.download leaves <title>.zip in the database          *)
(* directory and extracting it leaves the folder <title>.SAFE there.       *)
(* Python values are tagged with their kind where the code depends on it.  *)

ProductIds == 1..NumProducts
SafeName(i) == <<"SAFE", i>>
ZipName(i) == <<"zip", i>>

GdfVal(rows) == [kind |-> "gdf", rows |-> rows]
StrVal(s) == [kind |-> "str", s |-> s]
FloatVal(t) == [kind |-> "float", t |-> t]
BoolVal(b) == [kind |-> "bool", b |-> b]

\* a faulty variant of AreaDenominator: the branch of line 84 taken whatever
\* regional_poly is
AreaDenominator_footprint(polygon, regional_poly, row) == Area(row.geometry)

\* lines 83-86: the area the intersection is divided by
AreaDenominator(polygon, regional_poly, row) ==
    IF regional_poly.b THEN Area(row.geometry) ELSE Area(polygon)

\* a faulty variant of InDatabase: row.title looked up instead of row.filename
InDatabase_title(row, listing) == <<"title", row.idx>> \in listing

\* line 88: row.filename in os.listdir(database_path)
InDatabase(row, listing) == row.filename \in listing

\* lines 90-93: api.download and the extraction of the zip
Download(row, listing) == listing \cup {ZipName(row.idx), row.filename}

\* one turn of the loop of lines 81-97 on the state st of the call
DownloadStep(polygon, regional_poly, row, database_path, threshold, st) ==
    IF st.raised THEN st
    ELSE IF regional_poly.kind # "bool" THEN [st EXCEPT !.raised = TRUE]
    ELSE LET intersect_area == Area(Intersection(polygon, row.geometry))
         IN  IF AtLeast(intersect_area, AreaDenominator(polygon, regional_poly, row), threshold)
             THEN IF database_path.kind # "str" THEN [st EXCEPT !.raised = TRUE]
                  ELSE IF ~ InDatabase(row, st.db)
                  THEN [st EXCEPT !.db = Download(row, st.db),
                                  !.downloaded = Append(st.downloaded, row.idx)]
                  ELSE [st EXCEPT !.delete = Append(st.delete, row.idx)]
             ELSE [st EXCEPT !.delete = Append(st.delete, row.idx)]

RECURSIVE DownloadLoop(_, _, _, _, _, _)
DownloadLoop(polygon, regional_poly, rows, database_path, threshold, st) ==
    IF rows = <<>> THEN st
    ELSE DownloadLoop(polygon, regional_poly, Tail(rows), database_path, threshold,
            DownloadStep(polygon, regional_poly, Head(rows), database_path, threshold, st))

\* products.drop(delete)
Drop(rows, delete) == SelectSeq(rows, LAMBDA r : r.idx \notin Range(delete))

\* download_folders on the database directory holding db.  products.iterrows()
\* raises when products is no geodataframe.
download_folders(polygon, regional_poly, products, database_path, threshold, db) ==
    LET st0 == [raised |-> FALSE, db |-> db, delete |-> <<>>, downloaded |-> <<>>]
    IN  IF products.kind # "gdf"
        THEN [status |-> "raised", db |-> db, downloaded |-> <<>>, returned |-> <<>>]
        ELSE LET st == DownloadLoop(polygon, regional_poly, products.rows,
                                    database_path, threshold, st0)
             IN  IF st.raised
                 THEN [status |-> "raised", db |-> st.db,
                       downloaded |-> st.downloaded, returned |-> <<>>]
                 ELSE [status |-> "returned", db |-> st.db,
                       downloaded |-> st.downloaded,
                       returned |-> Drop(products.rows, st.delete)]

\* The ledger is [state, rows, unnamed]: state is "missing", "unreadable" or
\* "ok"; unnamed counts the unnamed index columns of the CSV (to_csv writes
\* the index, read_csv reads it back as a column).
MissingLedger == [state |-> "missing", rows |-> <<>>, unnamed |-> 0]
UnreadableLedger == [state |-> "unreadable", rows |-> <<>>, unnamed |-> 0]

\* df.to_csv(csv_path) of a frame read from a CSV with n unnamed columns
ToCsv(rows, n) == [state |-> "ok", rows |-> rows, unnamed |-> n + 1]

\* a faulty variant of update_downloaded: the try block raises after read_csv,
\* so the except branch also runs on a readable ledger
update_downloaded_raising(csv, downloaded_products) ==
    [ledger |-> ToCsv(downloaded_products, 0), fallback |-> TRUE, raised |-> FALSE]

\* lines 114-119.  df.append(downloaded_products) returns a new frame, which
\* the code drops: df itself is written back.
update_downloaded(csv, downloaded_products) ==
    IF csv.state = "ok"
    THEN LET df == csv.rows
             appended == df \o downloaded_products
         IN  [ledger |-> ToCsv(df, csv.unnamed), fallback |-> FALSE, raised |-> FALSE]
    ELSE [ledger |-> ToCsv(downloaded_products, 0), fallback |-> TRUE, raised |-> FALSE]

\* lines 144-148.  download_folders is called with four positional arguments:
\* they bind to polygon, regional_poly, products, database_path, and
\* threshold keeps its default.
full_pipe(csv, polygon, query, database_path, threshold, db) ==
    LET products == GdfVal(query)
        dl == download_folders(polygon, products, database_path, FloatVal(threshold),
                               DefaultDownloadThreshold, db)
    IN  IF dl.status = "raised"
        THEN [status |-> "raised", queried |-> TRUE, downloaded |-> FALSE,
              updated |-> FALSE, db |-> dl.db, ledger |-> csv]
        ELSE [status |-> "done", queried |-> TRUE, downloaded |-> TRUE,
              updated |-> TRUE, db |-> dl.db,
              ledger |-> update_downloaded(csv, dl.returned).ledger]

\* frames of product rows, in index order, no index twice
RECURSIVE FramesFrom(_, _)
FramesFrom(i, geoms) ==
    IF i > NumProducts THEN {<<>>}
    ELSE LET rest == FramesFrom(i + 1, geoms)
         IN  rest \cup {<<[idx |-> i, filename |-> SafeName(i), geometry |-> g]>> \o f :
                            g \in geoms, f \in rest}

ProductFrames == FramesFrom(1, Shapes)
\* the ledger does not read the footprints: one footprint per product is enough
LedgerFrames == FramesFrom(1, {Cells})

\* the geometries a file can hold: a MultiPolygon has at least one part
GeomShapes ==
    {[type |-> "Point", n |-> 0], [type |-> "Polygon", n |-> 1]}
    \cup {[type |-> "MultiPolygon", n |-> k] : k \in 1..MaxParts}

MkGeometry(i, s) == [type |-> s.type, parts |-> [k \in 1..s.n |-> <<i, k>>]]

\* input frames: row i is named <<i>> (_rename_geopandas numbers the rows)
PolyInputs ==
    {[i \in 1..Len(c) |-> [name |-> <<i>>, geometry |-> MkGeometry(i, c[i])]] :
        c \in SeqsUpTo(GeomShapes, 1, MaxRows)}

----------------------------------------------------------------------------
(* src/img_processing.py : ImageProcessing                                 *)

Categories == {"NDVI", "NDRE", "TCI"}

\* os.path.join(name, category); Dir(name, ".") is the polygon's own directory
Dir(name, sub) == [name |-> name, sub |-> sub]

\* os.makedirs(os.path.join(name, category)): the leaf and its missing parent
Makedirs(name, category, dirs) == dirs \cup {Dir(name, "."), Dir(name, category)}

\* lines 47-53: one turn of the loop of __int_directories
IntDirectoriesStep(row, dirs) ==
    IF Dir(row.name, ".") \notin dirs
    THEN Makedirs(row.name, "TCI",
            Makedirs(row.name, "NDRE",
                Makedirs(row.name, "NDVI", dirs)))
    ELSE dirs

RECURSIVE __int_directories(_, _)
__int_directories(gdf, dirs) ==
    IF gdf = <<>> THEN dirs
    ELSE __int_directories(Tail(gdf), IntDirectoriesStep(Head(gdf), dirs))

\* A date argument is None or a day (dd/mm/YYYY); an ingestion date is a day
\* and whether it is later than that day's midnight.
NoDate == [none |-> TRUE, day |-> 0]
DateOf(d) == [none |-> FALSE, day |-> d]
Days == {1, 2}
Stamps == [day : Days, late : BOOLEAN]

\* strptime gives a day's midnight; ts < midnight of day d
BeforeMidnight(ts, d) == ts.day < d

\* to_csv writes a footprint as WKT text, shapely.wkt.loads reads it back
ToWkt(shape) == [wkt |-> shape]
WktLoads(text) == text.wkt

\* a faulty variant of FoldersAreaDenominator: senti_poly.area for the
\* polygon's area
FoldersAreaDenominator_footprint(gdf_row, senti_poly) == Area(senti_poly)

\* line 108: the area the intersection is divided by
FoldersAreaDenominator(gdf_row, senti_poly) == Area(gdf_row.geometry)

\* lines 105-109: whether the ledger row qualifies for the polygon
FolderSelected(gdf_row, row, threshold) ==
    LET senti_poly == WktLoads(row.geometry)
        intersect_area == Area(Intersection(gdf_row.geometry, senti_poly))
    IN  AtLeast(intersect_area, FoldersAreaDenominator(gdf_row, senti_poly), threshold)

\* lines 110-111: the columns the selected rows add to the two lists
Filenames(rows) == [i \in 1..Len(rows) |-> rows[i].filename]

\* a faulty variant of IngestionDates: the dates listed newest row first
IngestionDates_reversed(rows) ==
    [i \in 1..Len(rows) |-> rows[Len(rows) + 1 - i].ingestiondate]

IngestionDates(rows) == [i \in 1..Len(rows) |-> rows[i].ingestiondate]

\* lines 101-111: the two dictionaries, a key being reset when its name comes again
RECURSIVE FoldersLoop(_, _, _, _)
FoldersLoop(gdf, df, threshold, acc) ==
    IF gdf = <<>> THEN acc
    ELSE LET gdf_row == Head(gdf)
             sel == SelectSeq(df, LAMBDA row : FolderSelected(gdf_row, row, threshold))
         IN  FoldersLoop(Tail(gdf), df, threshold,
                [folders |-> (gdf_row.name :> Filenames(sel))
                                @@ acc.folders,
                 date |-> (gdf_row.name :> IngestionDates(sel))
                                @@ acc.date])

\* get_folders.  pd.read_csv raises on a missing or unreadable CSV; line 95
\* reads the local intial_date before it is assigned, which raises as soon as
\* initial_date is given.
get_folders(gdf, csv, initial_date, final_date, threshold) ==
    LET raised == [status |-> "raised", folders |-> <<>>, date |-> <<>>]
    IN  IF csv.state # "ok" THEN raised
        ELSE IF ~ initial_date.none THEN raised
        ELSE LET df == IF final_date.none THEN csv.rows
                       ELSE SelectSeq(csv.rows,
                              LAMBDA r : BeforeMidnight(r.ingestiondate, final_date.day + 1))
                 out == FoldersLoop(gdf, df, threshold, [folders |-> <<>>, date |-> <<>>])
             IN  [status |-> "returned", folders |-> out.folders, date |-> out.date]

\* Rasters.  A band is a raster of unsigned 16-bit pixels, here of one pixel
\* value; an index raster keeps the numerator and the denominator of its
\* pixel, the denominator 0 standing for numpy's nan or inf.
Absent == [kind |-> "absent"]
U16(v) == [kind |-> "uint16", v |-> v]
Ratio(num, den) == [kind |-> "float32", num |-> num, den |-> den]

\* uint16 array + uint16 array is a uint16 array
UInt16Add(a, b) == (a + b) % 65536

\* lines 155 and 221: (nir.astype(float)-x.astype(float))/(nir+x)
NormalizedDifference(nir, x) == Ratio(nir.v - x.v, UInt16Add(nir.v, x.v))

\* lines 197-200: the 10 m band read at half the size; one pixel value stands
\* for a uniform raster, which bilinear resampling keeps
Resample(band) == band

\* a faulty variant of generate_ndvi: the test of line 143 left out
generate_ndvi_overwrite(img) ==
    IF img["R10m/B04"] = Absent \/ img["R10m/B08"] = Absent
    THEN [status |-> "raised", files |-> img]
    ELSE [status |-> "written",
          files |-> [img EXCEPT !["R10m/NDVI.tiff"] =
                        NormalizedDifference(img["R10m/B08"], img["R10m/B04"])]]

\* lines 142-162.  bands['B04'] and bands['B08'] raise KeyError when the band
\* file is not listed, before anything is written.
generate_ndvi(img) ==
    IF img["R10m/NDVI.tiff"] # Absent
    THEN [status |-> "skipped", files |-> img]
    ELSE IF img["R10m/B04"] = Absent \/ img["R10m/B08"] = Absent
    THEN [status |-> "raised", files |-> img]
    ELSE LET red == img["R10m/B04"]
             nir == img["R10m/B08"]
         IN  [status |-> "written",
              files |-> [img EXCEPT !["R10m/NDVI.tiff"] = NormalizedDifference(nir, red)]]

\* a faulty variant of generate_ndre: the 10 m band is resampled and written
\* before the 20 m band is looked up
generate_ndre_early(img) ==
    IF img["R10m/NDRE.tiff"] # Absent
    THEN [status |-> "skipped", files |-> img]
    ELSE IF img["R10m/B08"] = Absent
    THEN [status |-> "raised", files |-> img]
    ELSE LET reproj == [img EXCEPT !["R10m/B8_reproj.tiff"] = Resample(img["R10m/B08"])]
         IN  IF img["R20m/B05"] = Absent
             THEN [status |-> "raised", files |-> reproj]
             ELSE [status |-> "written",
                   files |-> [reproj EXCEPT !["R10m/NDRE.tiff"] =
                      NormalizedDifference(reproj["R10m/B8_reproj.tiff"], reproj["R20m/B05"])]]

\* lines 176-228.  bands['B05'] (line 183) and bands['B08'] (line 191) raise
\* KeyError when the band file is not listed, before B8_reproj.tiff is written.
generate_ndre(img) ==
    IF img["R10m/NDRE.tiff"] # Absent
    THEN [status |-> "skipped", files |-> img]
    ELSE IF img["R20m/B05"] = Absent
    THEN [status |-> "raised", files |-> img]
    ELSE IF img["R10m/B08"] = Absent
    THEN [status |-> "raised", files |-> img]
    ELSE LET reproj == [img EXCEPT !["R10m/B8_reproj.tiff"] = Resample(img["R10m/B08"])]
             rededge == reproj["R20m/B05"]
             nir == reproj["R10m/B8_reproj.tiff"]
         IN  [status |-> "written",
              files |-> [reproj EXCEPT !["R10m/NDRE.tiff"] = NormalizedDifference(nir, rededge)]]

(* mask_ndvi, mask_ndre, mask_tci.  A product's R10m folder holds a subset   *)
(* of the rasters "NDVI" (NDVI.tiff), "NDRE" (NDRE.tiff) and "TCI" (the     *)
(* ..._TCI_10m.jp2 band).  A written file is [name, category, day, product, *)
(* clip]: <name>/<category>/<day>_<category>.tiff holding the raster of     *)
(* that product cropped to clip.                                            *)
\* the cells every product raster covers
RasterExtent == {1}

\* date.strftime('%d-%m-%Y') (lines 252, 286, 321): the time of day is dropped
Strftime(date) == date.day

\* lines 247-250, 281-284, 315-318: the first row, or the rows named poly_name
SelectPolygon(gdf, poly_name) ==
    IF poly_name.none THEN <<gdf[1]>>
    ELSE SelectSeq(gdf, LAMBDA r : r.name = poly_name.name)

\* rio.open(filepath, 'w', ...) ; dst.write(out_image): the file at the path is
\* created, or truncated and rewritten when it exists
WriteRaster(out, file) ==
    {f \in out : ~ (f.name = file.name /\ f.category = file.category /\ f.day = file.day)}
        \cup {file}

\* the body the three operations share.  Opening a source raster that is not
\* there raises (for mask_tci, bands['TCI'] raises KeyError); rasterio.mask.mask
\* with crop=True raises ValueError when no shape overlaps the raster; opening
\* the output for writing raises when its directory does not exist.
MaskRaster(category, gdf, dirs, imgs, out, product, date, poly_name) ==
    LET sel == SelectPolygon(gdf, poly_name)
    IN  IF category \notin imgs[product]
        THEN [status |-> "raised", out |-> out]
        ELSE IF \A i \in 1..Len(sel) : Intersection(sel[i].geometry, RasterExtent) = {}
        THEN [status |-> "raised", out |-> out]
        ELSE IF Dir(sel[1].name, category) \notin dirs
        THEN [status |-> "raised", out |-> out]
        ELSE [status |-> "returned",
              out |-> WriteRaster(out,
                         [name |-> sel[1].name, category |-> category,
                          day |-> Strftime(date), product |-> product,
                          clip |-> UNION {Intersection(sel[i].geometry, RasterExtent) :
                                            i \in 1..Len(sel)}])]

\* lines 264-296
mask_ndvi(gdf, dirs, imgs, out, product, date, poly_name) ==
    MaskRaster("NDVI", gdf, dirs, imgs, out, product, date, poly_name)

\* lines 230-262
mask_ndre(gdf, dirs, imgs, out, product, date, poly_name) ==
    MaskRaster("NDRE", gdf, dirs, imgs, out, product, date, poly_name)

\* lines 298-335
mask_tci(gdf, dirs, imgs, out, product, date, poly_name) ==
    MaskRaster("TCI", gdf, dirs, imgs, out, product, date, poly_name)

----------------------------------------------------------------------------
(* Specifications.  Each one starts the variables of its own group from    *)
(* the inputs and the file-system states the program can meet and leaves   *)
(* the other groups idle.                                                  *)

PolyIdle == /\ pp_gdf = <<>>
            /\ pp_out = [status |-> "init", rows |-> <<>>]

NoCall == [status |-> "none", before |-> {}, downloaded |-> <<>>, returned |-> <<>>]
NoUpdate == [before |-> MissingLedger, arg |-> <<>>, fallback |-> FALSE, raised |-> FALSE]
NoPipe == [status |-> "idle", queried |-> FALSE, downloaded |-> FALSE, updated |-> FALSE]
NoArgs == [polygon |-> Cells, regional_poly |-> FALSE, products |-> <<>>,
           threshold |-> DefaultDownloadThreshold]

DownloadIdle == /\ dl_args = NoArgs
                /\ dl_calls = 0
                /\ dl_last = NoCall
UpdateIdle == /\ ud_calls = 0
              /\ ud_last = NoUpdate
              /\ ud_passed = {}
PipeIdle == /\ pipe_args = NoArgs
            /\ pipe = NoPipe
FilesIdle == /\ database = {}
             /\ ledger = MissingLedger

NoFolders == [status |-> "none", folders |-> <<>>, date |-> <<>>]
NoFoldersArgs == [initial_date |-> NoDate, final_date |-> NoDate,
                  threshold |-> DefaultFoldersThreshold]
FileNames == {"R10m/B04", "R10m/B08", "R20m/B05",
              "R10m/NDVI.tiff", "R10m/NDRE.tiff", "R10m/B8_reproj.tiff"}
\* ix_last: the operation and the outcome of the last call, the folder before
\* it, and the operation and the outcome of the call before
NoIndexCall == [op |-> "none", status |-> "none",
                before |-> [f \in FileNames |-> Absent],
                prev_op |-> "none", prev_status |-> "none"]

ImageIdle == /\ ip_gdf = <<>>
             /\ fs = {}
             /\ ip_built = FALSE
FoldersIdle == /\ gf_args = NoFoldersArgs
               /\ gf_out = NoFolders
IndexIdle == /\ files = [f \in FileNames |-> Absent]
             /\ ix_calls = 0
             /\ ix_last = NoIndexCall

NoName == [none |-> TRUE, name |-> 0]
NameOf(n) == [none |-> FALSE, name |-> n]
NoMask == [op |-> "none", status |-> "none", product |-> 0,
           date |-> [day |-> 0, late |-> FALSE], poly_name |-> NoName, before |-> {}]
MaskIdle == /\ mk_imgs = [p \in ProductIds |-> {}]
            /\ mk_out = {}
            /\ mk_calls = 0
            /\ mk_last = NoMask

\* the database directory before a call: product folders of earlier downloads
Databases == SUBSET {SafeName(i) : i \in ProductIds}

\* the CSV before a call: missing, unreadable, or written by an earlier to_csv
Ledgers == {MissingLedger, UnreadableLedger} \cup {ToCsv(f, 0) : f \in LedgerFrames}

(* preprocess_multipoly *)
InitPoly == /\ pp_gdf \in PolyInputs
            /\ pp_out = [status |-> "init", rows |-> <<>>]
            /\ DownloadIdle /\ UpdateIdle /\ PipeIdle /\ FilesIdle
            /\ ImageIdle /\ FoldersIdle /\ IndexIdle /\ MaskIdle

PreprocessMultipoly ==
    /\ pp_out.status = "init"
    /\ pp_out' = preprocess_multipoly(pp_gdf)
    /\ UNCHANGED <<pp_gdf, fileVars, dlVars, udVars, pipeVars, ipVars, gfVars, ixVars, mkVars>>

NextPoly == PreprocessMultipoly

SpecPoly == InitPoly /\ [][NextPoly]_vars

(* download_folders, called up to MaxCalls times with the same arguments *)
InitDownload ==
    /\ dl_args \in [polygon : Shapes, regional_poly : BOOLEAN,
                    products : ProductFrames, threshold : DownloadThresholds]
    /\ database \in Databases
    /\ dl_calls = 0
    /\ dl_last = NoCall
    /\ ledger = MissingLedger
    /\ PolyIdle /\ UpdateIdle /\ PipeIdle
    /\ ImageIdle /\ FoldersIdle /\ IndexIdle /\ MaskIdle

DownloadFolders ==
    /\ dl_calls < MaxCalls
    /\ LET r == download_folders(dl_args.polygon, BoolVal(dl_args.regional_poly),
                                 GdfVal(dl_args.products), StrVal("database"),
                                 dl_args.threshold, database)
       IN  /\ database' = r.db
           /\ dl_last' = [status |-> r.status, before |-> database,
                          downloaded |-> r.downloaded, returned |-> r.returned]
    /\ dl_calls' = dl_calls + 1
    /\ UNCHANGED <<polyVars, ledger, dl_args, udVars, pipeVars, ipVars, gfVars, ixVars, mkVars>>

NextDownload == DownloadFolders

SpecDownload == InitDownload /\ [][NextDownload]_vars

(* update_downloaded, called up to MaxUpdates times *)
InitLedger ==
    /\ ledger \in Ledgers
    /\ database = {}
    /\ UpdateIdle /\ PolyIdle /\ DownloadIdle /\ PipeIdle
    /\ ImageIdle /\ FoldersIdle /\ IndexIdle /\ MaskIdle

UpdateDownloaded ==
    /\ ud_calls < MaxUpdates
    /\ \E downloaded_products \in LedgerFrames :
         LET r == update_downloaded(ledger, downloaded_products)
         IN  /\ ledger' = r.ledger
             /\ ud_last' = [before |-> ledger, arg |-> downloaded_products,
                            fallback |-> r.fallback, raised |-> r.raised]
             /\ ud_passed' = ud_passed \cup Range(downloaded_products)
    /\ ud_calls' = ud_calls + 1
    /\ UNCHANGED <<polyVars, database, dlVars, pipeVars, ipVars, gfVars, ixVars, mkVars>>

NextLedger == UpdateDownloaded

SpecLedger == InitLedger /\ [][NextLedger]_vars

(* full_pipe, called once *)
InitPipe ==
    /\ pipe_args \in [polygon : Shapes, regional_poly : {FALSE},
                      products : ProductFrames, threshold : DownloadThresholds]
    /\ pipe = NoPipe
    /\ database \in Databases
    /\ ledger \in Ledgers
    /\ PolyIdle /\ DownloadIdle /\ UpdateIdle
    /\ ImageIdle /\ FoldersIdle /\ IndexIdle /\ MaskIdle

FullPipe ==
    /\ pipe.status = "idle"
    /\ LET r == full_pipe(ledger, pipe_args.polygon, pipe_args.products,
                          StrVal("database"), pipe_args.threshold, database)
       IN  /\ pipe' = [status |-> r.status, queried |-> r.queried,
                       downloaded |-> r.downloaded, updated |-> r.updated]
           /\ database' = r.db
           /\ ledger' = r.ledger
    /\ UNCHANGED <<polyVars, dlVars, udVars, pipe_args, ipVars, gfVars, ixVars, mkVars>>

NextPipe == FullPipe

SpecPipe == InitPipe /\ [][NextPipe]_vars

(* ImageProcessing.__init__ on any state of the working directory *)
PolyNames == 1..MaxPolys
AllDirs == {Dir(n, sub) : n \in PolyNames, sub \in {"."} \cup Categories}

\* a directory exists only inside an existing directory
FsStates == {d \in SUBSET AllDirs : \A x \in d : Dir(x.name, ".") \in d}

\* geodataframes of polygons with distinct names
NamedGdfs ==
    {g \in SeqsUpTo([name : PolyNames, geometry : {Cells}], 1, MaxPolys) :
        \A i, j \in 1..Len(g) : g[i].name = g[j].name => i = j}

InitDirs ==
    /\ ip_gdf \in NamedGdfs
    /\ fs \in FsStates
    /\ ip_built = FALSE
    /\ PolyIdle /\ DownloadIdle /\ UpdateIdle /\ PipeIdle /\ FilesIdle
    /\ FoldersIdle /\ IndexIdle /\ MaskIdle

Construct ==
    /\ ~ ip_built
    /\ fs' = __int_directories(ip_gdf, fs)
    /\ ip_built' = TRUE
    /\ UNCHANGED <<polyVars, fileVars, dlVars, udVars, pipeVars, ip_gdf, gfVars, ixVars, mkVars>>

NextDirs == Construct

SpecDirs == InitDirs /\ [][NextDirs]_vars

(* get_folders, called once on a constructed object *)
\* row i of the geodataframe is named i
ShapedGdfs ==
    {[i \in 1..Len(c) |-> [name |-> i, geometry |-> c[i]]] :
        c \in SeqsUpTo(Shapes, 1, MaxPolys)}

\* the ledger rows get_folders reads, in index order
RECURSIVE LedgerRowsFrom(_)
LedgerRowsFrom(i) ==
    IF i > NumProducts THEN {<<>>}
    ELSE LET rest == LedgerRowsFrom(i + 1)
         IN  rest \cup {<<[idx |-> i, filename |-> SafeName(i), ingestiondate |-> t,
                           geometry |-> ToWkt(g)]>> \o f :
                            t \in Stamps, g \in Shapes, f \in rest}

FolderLedgers == {MissingLedger} \cup {ToCsv(rows, 0) : rows \in LedgerRowsFrom(1)}

InitFolders ==
    /\ ip_gdf \in ShapedGdfs
    /\ fs = __int_directories(ip_gdf, {})
    /\ ip_built = TRUE
    /\ ledger \in FolderLedgers
    /\ database = {}
    /\ FoldersIdle
    /\ PolyIdle /\ DownloadIdle /\ UpdateIdle /\ PipeIdle /\ IndexIdle /\ MaskIdle

GetFolders ==
    /\ gf_out.status = "none"
    /\ \E initial_date \in {NoDate, DateOf(1)},
          final_date \in {NoDate, DateOf(1)},
          threshold \in FoldersThresholds :
         /\ gf_args' = [initial_date |-> initial_date, final_date |-> final_date,
                        threshold |-> threshold]
         /\ gf_out' = get_folders(ip_gdf, ledger, initial_date, final_date, threshold)
    /\ UNCHANGED <<polyVars, fileVars, dlVars, udVars, pipeVars, ipVars, ixVars, mkVars>>

NextFolders == GetFolders

SpecFolders == InitFolders /\ [][NextFolders]_vars

(* generate_ndvi and generate_ndre on one product folder *)
PixelSamples == {0, 1, 30000, 40000, 65535}
Bands == {Absent} \cup {U16(v) : v \in PixelSamples}

InitIndex ==
    /\ files \in {f \in [FileNames -> Bands \cup {Ratio(0, 1)}] :
                    /\ \A b \in {"R10m/B04", "R10m/B08", "R20m/B05"} : f[b] \in Bands
                    /\ \A t \in {"R10m/NDVI.tiff", "R10m/NDRE.tiff"} :
                          f[t] \in {Absent, Ratio(0, 1)}
                    /\ f["R10m/B8_reproj.tiff"] \in {Absent, U16(0)}}
    /\ ix_calls = 0
    /\ ix_last = NoIndexCall
    /\ PolyIdle /\ DownloadIdle /\ UpdateIdle /\ PipeIdle /\ FilesIdle
    /\ ImageIdle /\ FoldersIdle /\ MaskIdle

GenerateNdvi ==
    /\ ix_calls < MaxCalls
    /\ LET r == generate_ndvi(files)
       IN  /\ files' = r.files
           /\ ix_last' = [op |-> "ndvi", status |-> r.status, before |-> files,
                          prev_op |-> ix_last.op, prev_status |-> ix_last.status]
    /\ ix_calls' = ix_calls + 1
    /\ UNCHANGED <<polyVars, fileVars, dlVars, udVars, pipeVars, ipVars, gfVars, mkVars>>

GenerateNdre ==
    /\ ix_calls < MaxCalls
    /\ LET r == generate_ndre(files)
       IN  /\ files' = r.files
           /\ ix_last' = [op |-> "ndre", status |-> r.status, before |-> files,
                          prev_op |-> ix_last.op, prev_status |-> ix_last.status]
    /\ ix_calls' = ix_calls + 1
    /\ UNCHANGED <<polyVars, fileVars, dlVars, udVars, pipeVars, ipVars, gfVars, mkVars>>

\* the user puts a missing band file back after a call failed; ix_last keeps
\* the operation that failed, with the status "restored"
RestoreBand ==
    /\ ix_last.status = "raised"
    /\ \E b \in {"R10m/B04", "R10m/B08", "R20m/B05"}, v \in PixelSamples :
         /\ files[b] = Absent
         /\ files' = [files EXCEPT ![b] = U16(v)]
    /\ ix_last' = [ix_last EXCEPT !.status = "restored"]
    /\ UNCHANGED <<polyVars, fileVars, dlVars, udVars, pipeVars, ipVars, gfVars, ix_calls,
                   mkVars>>

NextIndex == GenerateNdvi \/ GenerateNdre \/ RestoreBand

SpecIndex == InitIndex /\ [][NextIndex]_vars

(* mask_ndvi, mask_ndre and mask_tci, called up to MaxMasks times on an     *)
(* object constructed in a working directory where each polygon directory  *)
(* is either absent or already there                                       *)
\* the working directory before the constructor: polygon directories only
BareDirs == {d \in FsStates : \A x \in d : x.sub = "."}

\* what the product folders hold: every raster, or only the TCI band when
\* the indices of the product have not been generated
ImgStates == [ProductIds -> {Categories, {"TCI"}}]

MaskDates == {[day |-> 1, late |-> FALSE], [day |-> 1, late |-> TRUE],
              [day |-> 2, late |-> FALSE]}

PolyNameArgs == {NoName} \cup {NameOf(n) : n \in PolyNames}

InitMask ==
    /\ ip_gdf \in ShapedGdfs
    /\ fs \in BareDirs
    /\ ip_built = FALSE
    /\ mk_imgs \in ImgStates
    /\ mk_out = {}
    /\ mk_calls = 0
    /\ mk_last = NoMask
    /\ PolyIdle /\ DownloadIdle /\ UpdateIdle /\ PipeIdle /\ FilesIdle
    /\ FoldersIdle /\ IndexIdle

MaskCall(op, r, product, date, poly_name) ==
    /\ mk_out' = r.out
    /\ mk_calls' = mk_calls + 1
    /\ mk_last' = [op |-> op, status |-> r.status, product |-> product, date |-> date,
                   poly_name |-> poly_name, before |-> mk_out]
    /\ UNCHANGED <<polyVars, fileVars, dlVars, udVars, pipeVars, ipVars, gfVars, ixVars,
                   mk_imgs>>

MaskNdvi ==
    /\ ip_built
    /\ mk_calls < MaxMasks
    /\ \E product \in ProductIds, date \in MaskDates, poly_name \in PolyNameArgs :
         MaskCall("NDVI", mask_ndvi(ip_gdf, fs, mk_imgs, mk_out, product, date, poly_name),
                  product, date, poly_name)

MaskNdre ==
    /\ ip_built
    /\ mk_calls < MaxMasks
    /\ \E product \in ProductIds, date \in MaskDates, poly_name \in PolyNameArgs :
         MaskCall("NDRE", mask_ndre(ip_gdf, fs, mk_imgs, mk_out, product, date, poly_name),
                  product, date, poly_name)

MaskTci ==
    /\ ip_built
    /\ mk_calls < MaxMasks
    /\ \E product \in ProductIds, date \in MaskDates, poly_name \in PolyNameArgs :
         MaskCall("TCI", mask_tci(ip_gdf, fs, mk_imgs, mk_out, product, date, poly_name),
                  product, date, poly_name)

NextMask == Construct \/ MaskNdvi \/ MaskNdre \/ MaskTci

SpecMask == InitMask /\ [][NextMask]_vars

----------------------------------------------------------------------------
(* Claims *)

\* every polygon of the input: the Polygon rows and the parts of the MultiPolygon rows
InputPolygons ==
    UNION {Range(pp_gdf[i].geometry.parts) :
            i \in {j \in 1..Len(pp_gdf) :
                     pp_gdf[j].geometry.type \in {"Polygon", "MultiPolygon"}}}

OutputPolygons == UNION {Range(pp_out.rows[i].geometry.parts) : i \in 1..Len(pp_out.rows)}

NumMulti == Cardinality({i \in 1..Len(pp_gdf) : pp_gdf[i].geometry.type = "MultiPolygon"})
NumPoly == Cardinality({i \in 1..Len(pp_gdf) : pp_gdf[i].geometry.type = "Polygon"})

\* C9: preprocess_multipoly returns only Polygon geometries, made of every
\* Polygon row of the input plus every constituent polygon of every
\* MultiPolygon row: no constituent polygon is dropped.
C9_NoPartDropped ==
    pp_out.status = "returned" =>
        /\ \A i \in 1..Len(pp_out.rows) : pp_out.rows[i].geometry.type = "Polygon"
        /\ OutputPolygons = InputPolygons

\* C10: preprocess_multipoly raises if and only if the input has no Polygon
\* row and no MultiPolygon row; otherwise it returns.
C10_RaisesIffNoPolygon ==
    pp_out.status # "init" =>
        /\ (pp_out.status = "raised") <=> (NumMulti = 0 /\ NumPoly = 0)
        /\ (pp_out.status = "returned") <=> (NumMulti > 0 \/ NumPoly > 0)

\* witness of C10: an input of MultiPolygon rows only was processed and returned
C10_Witness ==
    /\ pp_out.status = "returned"
    /\ NumMulti > 0
    /\ NumPoly = 0
    /\ Len(pp_out.rows) > 0

\* the rows of the ledger, as a set
LedgerRows == Range(ledger.rows)

\* C3: the ledger is append-only under update_downloaded: after a call on a
\* readable CSV it holds every record it held before and every record of
\* downloaded_products; after any sequence of calls it holds every record
\* passed in.
C3_AppendOnly ==
    ud_calls > 0 =>
        /\ ud_last.before.state = "ok" =>
              /\ Range(ud_last.before.rows) \subseteq LedgerRows
              /\ Range(ud_last.arg) \subseteq LedgerRows
        /\ ud_passed \subseteq LedgerRows

\* C4: update_downloaded writes a new CSV exactly when the ledger was missing
\* or unreadable; then the call does not raise and the ledger holds exactly
\* the records of downloaded_products; a readable ledger keeps its contents.
C4_FallbackOnlyWhenUnusable ==
    ud_calls > 0 =>
        /\ ud_last.fallback <=> (ud_last.before.state # "ok")
        /\ ~ ud_last.raised
        /\ ud_last.fallback => (ledger.state = "ok" /\ ledger.rows = ud_last.arg)
        /\ ud_last.before.state = "ok" =>
              /\ ledger.state = "ok"
              /\ Len(ledger.rows) >= Len(ud_last.before.rows)
              /\ SubSeq(ledger.rows, 1, Len(ud_last.before.rows)) = ud_last.before.rows

\* witness of C4: a call on a missing ledger fell back and wrote its products
C4_Witness ==
    /\ ud_calls > 0
    /\ ud_last.before.state = "missing"
    /\ ud_last.fallback
    /\ ud_last.arg # <<>>
    /\ ledger.rows = ud_last.arg

\* C5: every call of full_pipe gets through the query and the download and
\* reaches the ledger update.
C5_PipeReachesUpdate ==
    pipe.status # "idle" =>
        /\ pipe.status = "done"
        /\ pipe.queried /\ pipe.downloaded /\ pipe.updated

\* the row of the products of the download_folders calls with index i
DlRow(i) == CHOOSE r \in Range(dl_args.products) : r.idx = i

DlIntersect(row) == Area(Intersection(dl_args.polygon, row.geometry))

\* C6 as stated: a product is downloaded only if the fraction of the
\* polygon's area its footprint covers is at least threshold, whatever
\* regional_poly is.
C6_PolygonFractionAlways ==
    dl_last.status = "returned" =>
        \A i \in Range(dl_last.downloaded) :
            AtLeast(DlIntersect(DlRow(i)), Area(dl_args.polygon), dl_args.threshold)

\* C6 amended: a product is downloaded only if intersection area / polygon
\* area >= threshold when regional_poly is false, and only if intersection
\* area / footprint area >= threshold when regional_poly is true.
C6_FractionByRegionalPoly ==
    dl_last.status = "returned" =>
        \A i \in Range(dl_last.downloaded) :
            /\ ~ dl_args.regional_poly =>
                  AtLeast(DlIntersect(DlRow(i)), Area(dl_args.polygon), dl_args.threshold)
            /\ dl_args.regional_poly =>
                  AtLeast(DlIntersect(DlRow(i)), Area(DlRow(i).geometry), dl_args.threshold)

\* witness of C6: with regional_poly true a product was downloaded whose
\* footprint covers less than threshold of the polygon
C6_Witness ==
    /\ dl_last.status = "returned"
    /\ dl_args.regional_poly
    /\ \E i \in Range(dl_last.downloaded) :
          ~ AtLeast(DlIntersect(DlRow(i)), Area(dl_args.polygon), dl_args.threshold)

\* the products that meet the threshold of the call
DlQualifies(row) ==
    AtLeast(DlIntersect(row),
            IF dl_args.regional_poly THEN Area(row.geometry) ELSE Area(dl_args.polygon),
            dl_args.threshold)

\* C7: download_folders never downloads a product whose filename is in the
\* database directory; it returns exactly the products it downloaded, which
\* are those meeting the threshold and absent from the database; a second
\* call with the same products downloads nothing and returns no product.
C7_DownloadsOnlyMissing ==
    dl_last.status = "returned" =>
        /\ \A i \in Range(dl_last.downloaded) : SafeName(i) \notin dl_last.before
        /\ Range(dl_last.downloaded) =
              {r.idx : r \in {q \in Range(dl_args.products) :
                                 DlQualifies(q) /\ q.filename \notin dl_last.before}}
        /\ dl_last.returned =
              SelectSeq(dl_args.products, LAMBDA r : r.idx \in Range(dl_last.downloaded))
        /\ dl_calls >= 2 => (dl_last.downloaded = <<>> /\ dl_last.returned = <<>>)

\* witness of C7: the first call downloaded a product, the second one nothing
C7_Witness ==
    /\ dl_calls = 2
    /\ dl_last.status = "returned"
    /\ dl_last.downloaded = <<>>
    /\ \E i \in ProductIds : ZipName(i) \in database

\* the date window the arguments of get_folders describe: later than
\* initial_date, and no later than the end of the day final_date
InWindow(row) ==
    /\ gf_args.initial_date.none
          \/ row.ingestiondate.day > gf_args.initial_date.day
          \/ (row.ingestiondate.day = gf_args.initial_date.day /\ row.ingestiondate.late)
    /\ gf_args.final_date.none \/ row.ingestiondate.day <= gf_args.final_date.day

\* the fraction of the polygon's area the footprint of the ledger row covers
\* is at least the threshold of the call
CoversPolygon(gdf_row, row) ==
    AtLeast(Area(Intersection(gdf_row.geometry, row.geometry.wkt)),
            Area(gdf_row.geometry), gf_args.threshold)

\* C1: get_folders selects a ledger product for a polygon if and only if the
\* fraction of the polygon's area covered by the product's footprint is at
\* least threshold, for every polygon and every ledger row in the date window.
C1_SelectedIffCovered ==
    gf_out.status = "returned" =>
        \A i \in 1..Len(ip_gdf) :
            \A row \in Range(ledger.rows) :
                InWindow(row) =>
                    (row.filename \in Range(gf_out.folders[ip_gdf[i].name])
                        <=> CoversPolygon(ip_gdf[i], row))

\* witness of C1: for one polygon a row of the window was selected and another
\* one, covering too little of it, was not
C1_Witness ==
    /\ gf_out.status = "returned"
    /\ \E i \in 1..Len(ip_gdf) :
        \E r1, r2 \in Range(ledger.rows) :
            /\ InWindow(r1) /\ InWindow(r2)
            /\ r1.filename \in Range(gf_out.folders[ip_gdf[i].name])
            /\ r2.filename \notin Range(gf_out.folders[ip_gdf[i].name])
            /\ Intersection(ip_gdf[i].geometry, r2.geometry.wkt) # {}

\* C2: generate_ndvi (X = B04) and generate_ndre (X = B05) divide NIR - X by
\* the true sum NIR + X, for all unsigned 16-bit pixel values.
C2_TrueSumDenominator ==
    /\ (ix_last.op = "ndvi" /\ ix_last.status = "written") =>
          /\ files["R10m/NDVI.tiff"].num = files["R10m/B08"].v - files["R10m/B04"].v
          /\ files["R10m/NDVI.tiff"].den = files["R10m/B08"].v + files["R10m/B04"].v
    /\ (ix_last.op = "ndre" /\ ix_last.status = "written") =>
          /\ files["R10m/NDRE.tiff"].num = files["R10m/B08"].v - files["R20m/B05"].v
          /\ files["R10m/NDRE.tiff"].den = files["R10m/B08"].v + files["R20m/B05"].v

\* C8: after construction the three output directories of every polygon exist.
C8_OutputDirsExist ==
    ip_built =>
        \A i \in 1..Len(ip_gdf) :
            \A c \in Categories : Dir(ip_gdf[i].name, c) \in fs

\* the index file of the operation of the last call
TargetOfLast == IF ix_last.op = "ndvi" THEN "R10m/NDVI.tiff" ELSE "R10m/NDRE.tiff"

\* C11: generate_ndvi and generate_ndre do not overwrite: when NDVI.tiff
\* (NDRE.tiff) exists the call writes nothing and leaves every file of the
\* product folder as it was; the second of two calls in a row of the same
\* operation leaves the folder as the first one left it.
C11_NoOverwrite ==
    (ix_last.op # "none" /\ ix_last.status # "restored") =>
        /\ ix_last.before[TargetOfLast] # Absent =>
              (ix_last.status = "skipped" /\ files = ix_last.before)
        /\ (ix_last.prev_op = ix_last.op
                /\ ix_last.prev_status # "restored") => files = ix_last.before

\* witness of C11: a call wrote the index file and the next call of the same
\* operation found it and left the folder alone
C11_Witness ==
    /\ ix_last.op # "none"
    /\ ix_last.prev_op = ix_last.op
    /\ ix_last.prev_status = "written"
    /\ ix_last.status = "skipped"
    /\ files = ix_last.before

\* the bands the operation of the last call reads
BandsOfLast ==
    IF ix_last.op = "ndvi" THEN {"R10m/B04", "R10m/B08"} ELSE {"R20m/B05", "R10m/B08"}

\* the folder with the missing bands of the last call put back
Restored ==
    [f \in FileNames |->
        IF f \in BandsOfLast /\ files[f] = Absent THEN U16(1) ELSE files[f]]

\* C14 as stated: whenever a band the operation needs is missing, the call ends
\* with an error and leaves the product folder unchanged.
C14_MissingBandRaises ==
    (ix_last.op # "none" /\ ix_last.status # "restored"
        /\ \E b \in BandsOfLast : ix_last.before[b] = Absent) =>
      (ix_last.status = "raised" /\ files = ix_last.before)

\* C14 amended: when a band the operation needs is missing (and the index file does
\* not exist yet) the call ends with an error and leaves the product folder
\* unchanged: no NDVI.tiff, NDRE.tiff or B8_reproj.tiff is created, and a call
\* made after the band is put back writes the index.
C14_FailedCallLeavesFolder ==
    /\ (ix_last.op # "none" /\ ix_last.status # "restored"
            /\ ix_last.before[TargetOfLast] = Absent
            /\ \E b \in BandsOfLast : ix_last.before[b] = Absent) =>
          ix_last.status = "raised"
    /\ ix_last.status = "raised" =>
          /\ files[TargetOfLast] = Absent
          /\ files = ix_last.before
          /\ (IF ix_last.op = "ndvi" THEN generate_ndvi(Restored)
                                     ELSE generate_ndre(Restored)).status = "written"
    /\ (ix_last.prev_status = "restored" /\ ix_last.prev_op = ix_last.op
            /\ \A b \in BandsOfLast : ix_last.before[b] # Absent) =>
          (ix_last.status = "written" /\ files[TargetOfLast] # Absent)

\* witness of C14: a call failed on a missing band, the band was put back and
\* the next call of the operation wrote the index
C14_Witness ==
    /\ ix_last.prev_status = "restored"
    /\ ix_last.prev_op = ix_last.op
    /\ ix_last.status = "written"
    /\ files[TargetOfLast] # Absent

\* the ledger row with the given filename
LedgerRowOf(filename) == CHOOSE r \in Range(ledger.rows) : r.filename = filename

\* C12: get_folders filters the ledger by date without raising: with
\* initial_date given only products ingested later than it are returned, with
\* final_date given only products ingested before the end of that day, and
\* with neither no product is excluded by date.
C12_DateFilter ==
    (gf_out.status # "none" /\ ledger.state = "ok") =>
        /\ gf_out.status = "returned"
        /\ \A i \in 1..Len(ip_gdf) :
            \A row \in Range(ledger.rows) :
                /\ row.filename \in Range(gf_out.folders[ip_gdf[i].name]) => InWindow(row)
                /\ (InWindow(row) /\ CoversPolygon(ip_gdf[i], row)) =>
                      row.filename \in Range(gf_out.folders[ip_gdf[i].name])

\* the positions of the ledger rows in a list of filenames are increasing
InLedgerOrder(names) ==
    \A i, j \in 1..Len(names) : i < j => LedgerRowOf(names[i]).idx < LedgerRowOf(names[j]).idx

\* C15: the two dictionaries of get_folders have exactly one key per polygon
\* name, and for every name the two lists have the same length, date[name][i]
\* is the ingestion date of the ledger row whose filename is folders[name][i],
\* and the rows come in ledger order.
C15_DictionariesAligned ==
    gf_out.status = "returned" =>
        /\ DOMAIN gf_out.folders = {ip_gdf[i].name : i \in 1..Len(ip_gdf)}
        /\ DOMAIN gf_out.date = DOMAIN gf_out.folders
        /\ \A n \in DOMAIN gf_out.folders :
            /\ Len(gf_out.date[n]) = Len(gf_out.folders[n])
            /\ \A i \in 1..Len(gf_out.folders[n]) :
                /\ gf_out.folders[n][i] \in {r.filename : r \in Range(ledger.rows)}
                /\ gf_out.date[n][i] = LedgerRowOf(gf_out.folders[n][i]).ingestiondate
            /\ InLedgerOrder(gf_out.folders[n])

\* witness of C15: one polygon got two products ingested at different times,
\* another polygon got none
C15_Witness ==
    /\ gf_out.status = "returned"
    /\ \E n, m \in DOMAIN gf_out.folders :
        /\ Len(gf_out.folders[n]) = 2
        /\ gf_out.date[n][1] # gf_out.date[n][2]
        /\ gf_out.folders[m] = <<>>
        /\ gf_out.date[m] = <<>>


\* the polygon the last mask call is about: the one named poly_name, or the
\* first row of the geodataframe when poly_name is None
MaskTargets ==
    IF mk_last.poly_name.none THEN {ip_gdf[1]}
    ELSE {ip_gdf[i] : i \in {j \in 1..Len(ip_gdf) : ip_gdf[j].name = mk_last.poly_name.name}}

\* the inputs of the last mask call are usable: the source raster is in the
\* product folder, the polygon exists and lies at least partly on the raster
MaskInputsValid ==
    /\ mk_last.op \in mk_imgs[mk_last.product]
    /\ \E t \in MaskTargets : Intersection(t.geometry, RasterExtent) # {}

AtPath(f, name, category, day) == f.name = name /\ f.category = category /\ f.day = day

\* the last mask call left exactly one file at <name>/<category>/<day>_<category>.tiff,
\* holding its product, and every other file as it was
WroteOneFile(name) ==
    LET here == {f \in mk_out : AtPath(f, name, mk_last.op, mk_last.date.day)}
    IN  /\ Cardinality(here) = 1
        /\ \A f \in here : f.product = mk_last.product
        /\ mk_out \ here =
             {f \in mk_last.before : ~ AtPath(f, name, mk_last.op, mk_last.date.day)}

\* C13: a call of mask_ndvi, mask_ndre or mask_tci on usable inputs writes exactly
\* one file, at <polygon name>/<NDVI|NDRE|TCI>/<dd-mm-YYYY>_<ndvi|ndre|tci>.tiff for
\* the polygon named poly_name (the first row when poly_name is None); no other
\* file is created or changed, and the file of an earlier call for the same
\* polygon and calendar date is replaced.
C13_MaskWritesOneFile ==
    (mk_last.op # "none" /\ MaskInputsValid) =>
        \A t \in MaskTargets : WroteOneFile(t.name)

\* the part of C13 that does hold: a mask call that returns has written exactly
\* that one file and left every other file alone
C13_ReturnedWritesOneFile ==
    mk_last.status = "returned" =>
        \A t \in MaskTargets : WroteOneFile(t.name)

\* a second call for the same polygon and calendar date, at another time of day
\* and from another product, has replaced the file of the first
C13_Replaced ==
    /\ mk_last.status = "returned"
    /\ \E f \in mk_last.before :
         /\ \E t \in MaskTargets : AtPath(f, t.name, mk_last.op, mk_last.date.day)
         /\ f.product # mk_last.product

====
